---- MODULE Spec2Model ----
(***************************************************************************)
(* Model of kvdb: a bulk loader of gzip-compressed JSON lines into an      *)
(* ordered key-value store (leveldb, bbolt, badgerdb or a dummy), and a    *)
(* suffix-lookup query dispatcher, built on key reversal.                  *)
(*                                                                         *)
(* Strings are Go strings: sequences of bytes (0..255).  A line of the     *)
(* input is represented by what jsonparser.EachKey delivers for it.        *)
(***************************************************************************)
EXTENDS Integers, Sequences, FiniteSets, Bags, TLC

\* ------------------------------------------------------------------ bounds
\* Longest string the key-transform check enumerates.
MaxStrLen == 3

\* ----------------------------------------------------------- byte strings
\* The bytes strings are drawn from: 'a', 'b', and the two bytes of U+00E9
\* (0xC3 0xA9), which alone or in the wrong order are invalid UTF-8.
ByteAlphabet == {97, 98, 195, 169}

RECURSIVE StringsUpTo(_, _)
StringsUpTo(alphabet, n) ==
    IF n = 0 THEN {<< >>}
    ELSE LET shorter == StringsUpTo(alphabet, n - 1)
         IN  shorter \cup {Append(t, b) : t \in {u \in shorter : Len(u) = n - 1}, b \in alphabet}

\* utf8.RuneError, what Go's conversion yields for a byte that starts no
\* valid encoding.
RuneError == 65533

IsCont(b) == b >= 128 /\ b <= 191

\* The rune starting at byte i of s and its width, as []rune(s) decodes it.
DecodeRuneAt(str, i) ==
    LET n  == Len(str)
        b0 == str[i]
        b1 == IF i + 1 <= n THEN str[i + 1] ELSE 0
        b2 == IF i + 2 <= n THEN str[i + 2] ELSE 0
        b3 == IF i + 3 <= n THEN str[i + 3] ELSE 0
        bad == [r |-> RuneError, w |-> 1]
    IN  IF b0 < 128 THEN [r |-> b0, w |-> 1]
        ELSE IF b0 >= 194 /\ b0 <= 223
        THEN IF i + 1 <= n /\ IsCont(b1)
             THEN [r |-> ((b0 % 32) * 64) + (b1 % 64), w |-> 2]
             ELSE bad
        ELSE IF b0 >= 224 /\ b0 <= 239
        THEN LET lo == IF b0 = 224 THEN 160 ELSE 128
                 hi == IF b0 = 237 THEN 159 ELSE 191
             IN  IF i + 2 <= n /\ b1 >= lo /\ b1 <= hi /\ IsCont(b2)
                 THEN [r |-> ((b0 % 16) * 4096) + ((b1 % 64) * 64) + (b2 % 64), w |-> 3]
                 ELSE bad
        ELSE IF b0 >= 240 /\ b0 <= 244
        THEN LET lo == IF b0 = 240 THEN 144 ELSE 128
                 hi == IF b0 = 244 THEN 143 ELSE 191
             IN  IF i + 3 <= n /\ b1 >= lo /\ b1 <= hi /\ IsCont(b2) /\ IsCont(b3)
                 THEN [r |-> ((b0 % 8) * 262144) + ((b1 % 64) * 4096)
                              + ((b2 % 64) * 64) + (b3 % 64), w |-> 4]
                 ELSE bad
        ELSE bad

\* []rune(s)
RECURSIVE DecodeFrom(_, _)
DecodeFrom(str, i) ==
    IF i > Len(str) THEN << >>
    ELSE LET d == DecodeRuneAt(str, i)
         IN  << d.r >> \o DecodeFrom(str, i + d.w)

ToRunes(str) == DecodeFrom(str, 1)

\* The UTF-8 encoding of one rune, as string([]rune) encodes it.
EncodeRune(r) ==
    LET c == IF r < 0 \/ r > 1114111 \/ (r >= 55296 /\ r <= 57343) THEN RuneError ELSE r
    IN  IF c < 128 THEN << c >>
        ELSE IF c < 2048 THEN << 192 + (c \div 64), 128 + (c % 64) >>
        ELSE IF c < 65536
        THEN << 224 + (c \div 4096), 128 + ((c \div 64) % 64), 128 + (c % 64) >>
        ELSE << 240 + (c \div 262144), 128 + ((c \div 4096) % 64),
                128 + ((c \div 64) % 64), 128 + (c % 64) >>

\* string(chars)
RECURSIVE FromRunes(_)
FromRunes(chars) ==
    IF chars = << >> THEN << >>
    ELSE EncodeRune(Head(chars)) \o FromRunes(Tail(chars))

\* The swap loop of reverse: for i, j := 0, len-1; i < j; i, j = i+1, j-1.
RECURSIVE SwapLoop(_, _, _)
SwapLoop(chars, i, j) ==
    IF i < j
    THEN SwapLoop([chars EXCEPT ![i] = chars[j], ![j] = chars[i]], i + 1, j - 1)
    ELSE chars

reverse(str) ==
    LET chars == ToRunes(str)
    IN  FromRunes(SwapLoop(chars, 1, Len(chars)))

\* copyBytes: a fresh slice with the same bytes.
copyBytes(in) == [i \in 1..Len(in) |-> in[i]]

ValidUTF8(str) == FromRunes(ToRunes(str)) = str

HasPrefix(k, p) == Len(k) >= Len(p) /\ SubSeq(k, 1, Len(p)) = p
HasSuffix(k, p) == Len(k) >= Len(p) /\ SubSeq(k, Len(k) - Len(p) + 1, Len(k)) = p

\* ---------------------------------------------------------------- backends
BackendTypes == {"dummy", "leveldb", "bbolt", "badgerdb"}

\* bytes.Compare(a, b) < 0
RECURSIVE BytesLess(_, _)
BytesLess(a, b) ==
    IF b = << >> THEN FALSE
    ELSE IF a = << >> THEN TRUE
    ELSE IF Head(a) # Head(b) THEN Head(a) < Head(b)
    ELSE BytesLess(Tail(a), Tail(b))

\* The keys of a store in the order an engine's iterator visits them.
RECURSIVE SortedKeys(_)
SortedKeys(keys) ==
    IF keys = {} THEN << >>
    ELSE LET m == CHOOSE x \in keys : \A y \in keys : x = y \/ BytesLess(x, y)
         IN  << m >> \o SortedKeys(keys \ {m})

\* What every engine's Put does with a batch it accepts: the pairs are
\* written in order, a later pair of the same key replacing an earlier one.
RECURSIVE WriteAll(_, _)
WriteAll(st, records) ==
    IF records = << >> THEN st
    ELSE LET r == Head(records)
         IN  WriteAll([k \in DOMAIN st \cup {r.Key} |->
                          IF k = r.Key THEN r.Value ELSE st[k]], Tail(records))

\* Put of the selected backend on state [store, bucket]; fault: the engine
\* fails the write.  The result carries the new state and the error.
DummyPut(db, records, fault) == [db |-> db, err |-> FALSE]

LevelDBPut(db, records, fault) ==
    IF fault THEN [db |-> db, err |-> TRUE]
    ELSE [db |-> [db EXCEPT !.store = WriteAll(db.store, records)], err |-> FALSE]

\* db.Update rolls the transaction back on error, bucket creation included.
BBoltPut(db, records, fault) ==
    IF fault THEN [db |-> db, err |-> TRUE]
    ELSE [db |-> [store |-> WriteAll(db.store, records), bucket |-> TRUE], err |-> FALSE]

BadgerDBPut(db, records, fault) ==
    IF fault THEN [db |-> db, err |-> TRUE]
    ELSE [db |-> [db EXCEPT !.store = WriteAll(db.store, records)], err |-> FALSE]

BackendPut(type, db, records, fault) ==
    CASE type = "dummy"    -> DummyPut(db, records, fault)
      [] type = "leveldb"  -> LevelDBPut(db, records, fault)
      [] type = "bbolt"    -> BBoltPut(db, records, fault)
      [] type = "badgerdb" -> BadgerDBPut(db, records, fault)

\* The stored pair of key k as a Record of a Search result.
Found(st, k) == [Key |-> k, Value |-> st[k]]

\* Cursor.Seek / Iterator.Seek: the position of the first key >= prefix.
RECURSIVE Seek(_, _, _)
Seek(keys, prefix, i) ==
    IF i > Len(keys) \/ ~BytesLess(keys[i], prefix) THEN i
    ELSE Seek(keys, prefix, i + 1)

\* The loop of bbolt's and badger's Search: from the seek position, append
\* while the key has the prefix.
RECURSIVE ScanPrefix(_, _, _, _)
ScanPrefix(st, keys, prefix, i) ==
    IF i > Len(keys) \/ ~HasPrefix(keys[i], prefix) THEN << >>
    ELSE << Found(st, keys[i]) >> \o ScanPrefix(st, keys, prefix, i + 1)

\* util.BytesPrefix: the limit of the range is the prefix with its last
\* byte below 0xff incremented (and what follows cut); none if there is no
\* such byte.
RECURSIVE PrefixLimit(_, _)
PrefixLimit(prefix, i) ==
    IF i = 0 THEN [bounded |-> FALSE, key |-> << >>]
    ELSE IF prefix[i] < 255
    THEN [bounded |-> TRUE, key |-> Append(SubSeq(prefix, 1, i - 1), prefix[i] + 1)]
    ELSE PrefixLimit(prefix, i - 1)

\* The loop of leveldb's Search: the iterator visits the keys of the range
\* [prefix, limit) in order.
RECURSIVE ScanRange(_, _, _, _)
ScanRange(st, keys, limit, i) ==
    IF i > Len(keys) \/ (limit.bounded /\ ~BytesLess(keys[i], limit.key)) THEN << >>
    ELSE << Found(st, keys[i]) >> \o ScanRange(st, keys, limit, i + 1)

\* Search of each backend: [records, err, panic].  fault: the engine fails
\* while reading.
DummySearch(db, prefix, fault) == [records |-> << >>, err |-> FALSE, panic |-> FALSE]

LevelDBSearch(db, prefix, fault) ==
    LET keys == SortedKeys(DOMAIN db.store)
    IN  IF fault THEN [records |-> << >>, err |-> TRUE, panic |-> FALSE]
        ELSE [records |-> ScanRange(db.store, keys, PrefixLimit(prefix, Len(prefix)),
                                    Seek(keys, prefix, 1)),
              err |-> FALSE, panic |-> FALSE]

\* tx.Bucket returns nil for a bucket that was never created, and Cursor
\* on it dereferences nil ("Assume bucket exists and has keys").
BBoltSearch(db, prefix, fault) ==
    LET keys == SortedKeys(DOMAIN db.store)
    IN  IF fault THEN [records |-> << >>, err |-> TRUE, panic |-> FALSE]
        ELSE IF ~db.bucket THEN [records |-> << >>, err |-> FALSE, panic |-> TRUE]
        ELSE [records |-> ScanPrefix(db.store, keys, prefix, Seek(keys, prefix, 1)),
              err |-> FALSE, panic |-> FALSE]

\* The error View returns (ValueCopy failing on the first item) is dropped:
\* Search returns what it has, and nil.
BadgerDBSearch(db, prefix, fault) ==
    LET keys == SortedKeys(DOMAIN db.store)
    IN  [records |-> IF fault THEN << >>
                     ELSE ScanPrefix(db.store, keys, prefix, Seek(keys, prefix, 1)),
         err |-> FALSE, panic |-> FALSE]

BackendSearch(type, db, prefix, fault) ==
    CASE type = "dummy"    -> DummySearch(db, prefix, fault)
      [] type = "leveldb"  -> LevelDBSearch(db, prefix, fault)
      [] type = "bbolt"    -> BBoltSearch(db, prefix, fault)
      [] type = "badgerdb" -> BadgerDBSearch(db, prefix, fault)

\* A newly created database.
EmptyDB == [store |-> << >>, bucket |-> FALSE]

\* --------------------------------------------------------------- variables
VARIABLES
    s,              \* key transform: the string reverse is applied to
    once,           \* key transform: reverse(s), once computed
    twice,          \* key transform: reverse(reverse(s)), once computed
    tpc,            \* key transform: "start", "once" or "twice"
    backendType,    \* the -backend flag
    db,             \* the opened database: [store: key -> value, bucket: bbolt's bucket exists]
    written,        \* history: the pairs the Put calls that returned nil were given
    lookup,         \* backend contract: the last Search call and what it returned
    inputFilename,  \* the -i flag
    batchSize,      \* the -b flag
    pc,             \* where the main goroutine is
    input,          \* the lines the scanner has returned so far, each as EachKey delivers it
    streamErr,      \* what went wrong with the input: "none", "open" (os.Open or gzip.NewReader failed) or "read" (scanner.Err() is not nil)
    parserChClosed, \* close(parserCh) has happened
    writerChClosed, \* close(writerCh) has happened
    pRecv,          \* parser goroutines waiting in `range parserCh`
    pSend,          \* the Records held by parser goroutines blocked in `writerCh <- r`
    pDone,          \* parser goroutines that have called parsersWg.Done
    writers,        \* the writer goroutines: a bag of [pc, records (the buffer)]
    totalRecords,   \* the progress counter
    putLog,         \* history: the Put calls that have returned, in order
    parseLog,       \* history: the lines a parse error was logged for
    loadErr,        \* what loadFile returned: "none" until it returns, then "nil" or "err"
    exitStatus,     \* "running", or how the process ended: "ok" (status 0), "fatal" (log.Fatal, status 1) or "panic" (status 2)
    closeCalls,     \* number of backend.Close calls
    query,          \* the -q flag
    queryConcurrency, \* the -c flag
    jsonFmt,        \* the -json flag
    queryTerms,     \* the non-empty parts of query
    qi,             \* the next term of queryTerms to search (sequential) or to send on queryCh
    queryChClosed,  \* close(queryCh) has happened
    outChClosed,    \* close(outCh) has happened
    workers,        \* the search goroutines: a bag of [pc, q, res]
    collector,      \* the goroutine that appends to results: [pc, res]
    results,        \* the slice results
    ranged,         \* the slice value `range results` iterates, once it has been read
    oi,             \* the next element of ranged to print
    output,         \* what has been printed: [query, key, value] per record
    failLog         \* the terms a "Failed to search" line was logged for

tvars == << s, once, twice, tpc >>
bvars == << backendType, db, written, lookup >>
lvars == << inputFilename, batchSize, pc, input, streamErr, parserChClosed, writerChClosed,
            pRecv, pSend, pDone, writers, totalRecords, putLog, parseLog, loadErr,
            exitStatus, closeCalls >>
lvarsButPc == << inputFilename, batchSize, input, streamErr, parserChClosed, writerChClosed,
                 pRecv, pSend, pDone, writers, totalRecords, putLog, parseLog, loadErr,
                 exitStatus, closeCalls >>
qvars == << query, queryConcurrency, jsonFmt, queryTerms, qi, queryChClosed, outChClosed,
            workers, collector, results, ranged, oi, output, failLog >>
vars == << s, once, twice, tpc, backendType, db, written, lookup,
           inputFilename, batchSize, pc, input, streamErr, parserChClosed, writerChClosed,
           pRecv, pSend, pDone, writers, totalRecords, putLog, parseLog, loadErr,
           exitStatus, closeCalls,
           query, queryConcurrency, jsonFmt, queryTerms, qi, queryChClosed, outChClosed,
           workers, collector, results, ranged, oi, output, failLog >>

\* One parser goroutine more than the constant.
MoreParsers == 12 + 1

\* const ( parsersCount = 12; writersCount = 4 )
parsersCount == 12
writersCount == 4

\* The writer goroutines before loadFile starts them: none.  The goroutines
\* of a pool run the same closure and have no name; the pool is the bag of
\* their states.
NotStarted == EmptyBag

\* The bag b after one goroutine in state from has moved to state to.
Step(b, from, to) == (b (-) SetToBag({from})) (+) SetToBag({to})

\* The number of writer goroutines of the bag b that are at p.
WritersAt(b, p) ==
    BagCardinality([ws \in {x \in BagToSet(b) : x.pc = p} |-> CopiesIn(ws, b)])

\* The parts of the state a specification does not use stay as they start.
TransformIdle == s = << >> /\ once = << >> /\ twice = << >> /\ tpc = "idle"
NoLookup == [op |-> "none"]
BackendIdle == lookup = NoLookup
NoResult == [query |-> << >>, records |-> << >>, err |-> FALSE]
QueryIdle ==
    /\ queryTerms = << >> /\ qi = 1 /\ queryChClosed = FALSE /\ outChClosed = FALSE
    /\ workers = EmptyBag /\ collector = [pc |-> "none", res |-> NoResult]
    /\ results = << >> /\ ranged = << >> /\ oi = 1 /\ output = << >> /\ failLog = << >>
NoQuery == query = << >> /\ queryConcurrency = 10 /\ jsonFmt = FALSE /\ QueryIdle
MainIdle ==
    /\ inputFilename = "" /\ batchSize = 1 /\ pc = "idle" /\ input = << >>
    /\ streamErr = "none" /\ parserChClosed = FALSE /\ writerChClosed = FALSE
    /\ pRecv = 0 /\ pSend = {} /\ pDone = 0 /\ writers = NotStarted
    /\ totalRecords = 0 /\ putLog = << >> /\ parseLog = {} /\ loadErr = "none"
    /\ exitStatus = "running" /\ closeCalls = 0
    /\ NoQuery

\* ------------------------------------------------------------ key transform
TransformInit ==
    /\ s \in StringsUpTo(ByteAlphabet, MaxStrLen)
    /\ once = << >>
    /\ twice = << >>
    /\ tpc = "start"
    /\ backendType = "dummy" /\ db = EmptyDB /\ written = << >>
    /\ BackendIdle
    /\ MainIdle

\* A key is reversed before it is stored (main.go:212) ...
ReverseKey ==
    /\ tpc = "start"
    /\ once' = reverse(s)
    /\ tpc' = "once"
    /\ UNCHANGED << s, twice, bvars, lvars, qvars >>

\* ... and the stored key is reversed again for output (main.go:152).
ReverseStored ==
    /\ tpc = "once"
    /\ twice' = reverse(once)
    /\ tpc' = "twice"
    /\ UNCHANGED << s, once, bvars, lvars, qvars >>

TransformNext == ReverseKey \/ ReverseStored

SpecTransform == TransformInit /\ [][TransformNext]_vars

\* C10: reverse is self-inverse: for all strings s, reverse(reverse(s)) = s.
C10_ReverseSelfInverse == tpc = "twice" => twice = s

\* C10 for the strings that are UTF-8.
C10_ReverseSelfInverseUTF8 == (tpc = "twice" /\ ValidUTF8(s)) => twice = s

\* --------------------------------------------------------- backend contract
\* Longest key of the backend contract check, and the most pairs in a batch.
MaxKeyLen == 2
MaxPutLen == 2

\* Stored keys are arbitrary byte strings; 0xff exercises the range limit.
StoreKeys == StringsUpTo({97, 255}, MaxKeyLen) \ {<< >>}
StoreValues == {<< 49 >>, << 50 >>}
StoreRecords == [Key : StoreKeys, Value : StoreValues]

RECURSIVE BatchesUpTo(_, _)
BatchesUpTo(records, n) ==
    IF n = 0 THEN {<< >>}
    ELSE LET shorter == BatchesUpTo(records, n - 1)
         IN  shorter \cup {Append(b, r) : b \in {c \in shorter : Len(c) = n - 1}, r \in records}

BackendInit ==
    /\ backendType \in BackendTypes
    /\ db = EmptyDB
    /\ written = << >>
    /\ lookup = NoLookup
    /\ TransformIdle
    /\ MainIdle

\* backend.Put(records)
StorePut ==
    \E records \in BatchesUpTo(StoreRecords, MaxPutLen) \ {<< >>}, fault \in BOOLEAN :
        LET put == BackendPut(backendType, db, records, fault)
        IN  /\ db' = put.db
            /\ written' = IF put.err THEN written ELSE WriteAll(written, records)
            /\ lookup' = NoLookup
            /\ UNCHANGED << backendType, tvars, lvars, qvars >>

\* backend.Search(prefix)
StoreSearch ==
    \E prefix \in StoreKeys, fault \in BOOLEAN :
        LET got == BackendSearch(backendType, db, prefix, fault)
        IN  /\ lookup' = [op |-> "search", prefix |-> prefix, fault |-> fault,
                          records |-> got.records, err |-> got.err, panic |-> got.panic]
            /\ UNCHANGED << backendType, db, written, tvars, lvars, qvars >>

BackendNext == StorePut \/ StoreSearch

SpecBackend == BackendInit /\ [][BackendNext]_vars

\* The records of st whose key starts with prefix, in ascending key order.
RECURSIVE Ascending(_, _)
Ascending(st, keys) ==
    IF keys = {} THEN << >>
    ELSE LET m == CHOOSE x \in keys : \A y \in keys : x = y \/ BytesLess(x, y)
         IN  << Found(st, m) >> \o Ascending(st, keys \ {m})

Matching(st, prefix) == Ascending(st, {k \in DOMAIN st : HasPrefix(k, prefix)})

\* C9: for every backend, a Search the engine does not fail returns exactly
\* the pairs stored by Put whose key starts with the prefix, in ascending key
\* order and with no error; on a store nothing was Put into, the empty sequence.
C9_SearchContract ==
    (lookup.op = "search" /\ ~lookup.fault) =>
        /\ ~lookup.panic
        /\ ~lookup.err
        /\ lookup.records = Matching(written, lookup.prefix)

\* C9 restricted to the engines that keep what they are given and to a
\* store that Put has written to.
C9_SearchContractAfterPut ==
    (lookup.op = "search" /\ ~lookup.fault /\ backendType # "dummy" /\ written # << >>) =>
        /\ ~lookup.panic
        /\ ~lookup.err
        /\ lookup.records = Matching(written, lookup.prefix)

\* ------------------------------------------------------------------ loadFile
\* Most lines the input stream holds, and the largest -b.
MaxLines == 3
MaxBatch == 2

\* A line, as jsonparser.EachKey delivers it to the callback: the raw bytes
\* of "name" and of "value" (empty when the line has no such field), and the
\* field, if any, the callback is handed an error for.
LoadLines ==
    [name : {<< 97, 98 >>}, value : {<< 49 >>, << 50 >>}, perr : {"none"}]
        \cup {[name |-> << 97, 98 >>, value |-> << >>, perr |-> "none"],
              [name |-> << >>, value |-> << 49 >>, perr |-> "none"],
              [name |-> << 97, 98 >>, value |-> << 49 >>, perr |-> "value"]}

\* The callback of EachKey: an error is logged and the field left unset.
ExtractKey(line) == IF line.perr = "name" THEN << >> ELSE line.name
ExtractValue(line) == IF line.perr = "value" THEN << >> ELSE line.value

\* The guard without its second half.
AcceptedKeyOnly(line) == Len(ExtractKey(line)) > 0

\* if len(key) > 0 && len(value) > 0
Accepted(line) == Len(ExtractKey(line)) > 0 /\ Len(ExtractValue(line)) > 0

\* Record{Key: reverse(string(key)), Value: copyBytes(value)}; line tells the
\* Records of two equal lines apart (it is no field of the Go struct).
MakeRecord(line, n) ==
    [line |-> n, Key |-> reverse(ExtractKey(line)), Value |-> copyBytes(ExtractValue(line))]

\* What the engines are given of a Record.
RECURSIVE Pairs(_)
Pairs(records) ==
    IF records = << >> THEN << >>
    ELSE << [Key |-> Head(records).Key, Value |-> Head(records).Value] >> \o Pairs(Tail(records))

\* A writer goroutine at the head of its loop, its buffer empty.
FreshWriter == [pc |-> "recv", records |-> << >>]

\* The states the writer goroutines are in.
WriterStates == BagToSet(writers)

\* The flags and the newly opened database of a run that loads a file.
LoadInit ==
    /\ inputFilename = "in.gz"
    /\ batchSize \in 1..MaxBatch
    /\ backendType = "badgerdb"
    /\ db = EmptyDB
    /\ written = << >>
    /\ pc = "start"
    /\ input = << >>
    /\ streamErr = "none" /\ parserChClosed = FALSE /\ writerChClosed = FALSE
    /\ pRecv = 0 /\ pSend = {} /\ pDone = 0 /\ writers = NotStarted
    /\ totalRecords = 0 /\ putLog = << >> /\ parseLog = {} /\ loadErr = "none"
    /\ exitStatus = "running" /\ closeCalls = 0
    /\ NoQuery
    /\ TransformIdle
    /\ BackendIdle

\* main up to the call of loadFile, and loadFile up to the reader loop: the
\* file is opened (that may fail) and the goroutines are started.
MainStart ==
    /\ pc = "start"
    /\ exitStatus = "running"
    /\ \E openErr \in BOOLEAN :
        IF inputFilename = "" THEN
            /\ pc' = "query"
            /\ UNCHANGED << loadErr, streamErr, pRecv, writers >>
        ELSE IF openErr THEN
            /\ pc' = "loaded"
            /\ loadErr' = "err"
            /\ streamErr' = "open"
            /\ UNCHANGED << pRecv, writers >>
        ELSE
            /\ pc' = "scan"
            /\ pRecv' = parsersCount
            /\ writers' = [ws \in {FreshWriter} |-> writersCount]
            /\ UNCHANGED << loadErr, streamErr >>
    /\ UNCHANGED << tvars, bvars, qvars, inputFilename, batchSize, input, parserChClosed,
                    writerChClosed, pSend, pDone, totalRecords, putLog, parseLog,
                    exitStatus, closeCalls >>

\* scanner.Scan() returns true: the next line of the stream.
ScanUpTo(lines, max) ==
    /\ pc = "scan"
    /\ Len(input) < max
    /\ \E line \in lines : input' = Append(input, line)
    /\ pc' = "send"
    /\ UNCHANGED << tvars, bvars, qvars, inputFilename, batchSize, streamErr, parserChClosed,
                    writerChClosed, pRecv, pSend, pDone, writers, totalRecords, putLog,
                    parseLog, loadErr, exitStatus, closeCalls >>

ScanLine(lines) == ScanUpTo(lines, MaxLines)

LoadScan == ScanLine(LoadLines)

\* parserCh <- copyBytes(scanner.Bytes()), received by a parser goroutine in
\* `range parserCh`, which runs EachKey and the guard on it.
HandOff ==
    /\ pc = "send"
    /\ pRecv > 0
    /\ LET n == Len(input)
           line == input[n]
       IN  /\ parseLog' = IF line.perr # "none" THEN parseLog \cup {n} ELSE parseLog
           /\ IF Accepted(line)
              THEN /\ pSend' = pSend \cup {MakeRecord(line, n)}
                   /\ pRecv' = pRecv - 1
              ELSE UNCHANGED << pSend, pRecv >>
    /\ pc' = "scan"
    /\ UNCHANGED << tvars, bvars, qvars, inputFilename, batchSize, input, streamErr, parserChClosed,
                    writerChClosed, pDone, writers, totalRecords, putLog, loadErr,
                    exitStatus, closeCalls >>

\* scanner.Scan() returns false, at the end of the stream or on a read or
\* decompression error (which of the two shows when scanner.Err() is read);
\* then close(parserCh).
EndOfInput ==
    /\ pc = "scan"
    /\ parserChClosed' = TRUE
    /\ pc' = "waitParsers"
    /\ UNCHANGED << tvars, bvars, qvars, inputFilename, batchSize, input, streamErr, writerChClosed,
                    pRecv, pSend, pDone, writers, totalRecords, putLog, parseLog, loadErr,
                    exitStatus, closeCalls >>

\* A parser's `range parserCh` ends on the closed channel: parsersWg.Done().
ParserExit ==
    /\ parserChClosed
    /\ pRecv > 0
    /\ pRecv' = pRecv - 1
    /\ pDone' = pDone + 1
    /\ UNCHANGED << tvars, bvars, qvars, inputFilename, batchSize, pc, input, streamErr,
                    parserChClosed, writerChClosed, pSend, writers, totalRecords, putLog,
                    parseLog, loadErr, exitStatus, closeCalls >>

\* The flush test, one record late.
BufferFullLate(records) == Len(records) = batchSize + 1

\* A writer that never flushes in its loop.
BufferFullNever(records) == FALSE

\* if len(records) == batchSize
BufferFull(records) == Len(records) = batchSize

\* A writer receives r from a parser blocked in `writerCh <- r` and appends
\* it; a full buffer is handed to Put, otherwise the counter is advanced.
WriterRecv(ws) ==
    /\ ws.pc = "recv"
    /\ \E r \in pSend :
        LET records == Append(ws.records, r)
        IN  /\ pSend' = pSend \ {r}
            /\ pRecv' = pRecv + 1
            /\ IF BufferFull(records)
               THEN /\ writers' = Step(writers, ws, [pc |-> "put", records |-> records])
                    /\ UNCHANGED totalRecords
               ELSE /\ writers' = Step(writers, ws, [pc |-> "recv", records |-> records])
                    /\ totalRecords' = totalRecords + 1
    /\ UNCHANGED << tvars, bvars, qvars, inputFilename, batchSize, pc, input, streamErr,
                    parserChClosed, writerChClosed, pDone, putLog, parseLog, loadErr,
                    exitStatus, closeCalls >>

\* AfterPut without `records = records[:0]`.
AfterPutKeep(ws, err) ==
    IF ws.pc = "put"
    THEN /\ writers' = Step(writers, ws, [pc |-> "recv", records |-> ws.records])
         /\ totalRecords' = totalRecords + 1
    ELSE /\ writers' = Step(writers, ws, [pc |-> "done", records |-> << >>])
         /\ UNCHANGED totalRecords

\* AfterPut calling Put again with the batch that failed.
AfterPutRetry(ws, err) ==
    IF err THEN UNCHANGED << writers, totalRecords >>
    ELSE IF ws.pc = "put"
    THEN /\ writers' = Step(writers, ws, [pc |-> "recv", records |-> << >>])
         /\ totalRecords' = totalRecords + 1
    ELSE /\ writers' = Step(writers, ws, [pc |-> "done", records |-> << >>])
         /\ UNCHANGED totalRecords

\* AfterPut counting a record only when its Put succeeded.
AfterPutCountStored(ws, err) ==
    IF ws.pc = "put"
    THEN /\ writers' = Step(writers, ws, [pc |-> "recv", records |-> << >>])
         /\ totalRecords' = IF err THEN totalRecords ELSE totalRecords + 1
    ELSE /\ writers' = Step(writers, ws, [pc |-> "done", records |-> << >>])
         /\ UNCHANGED totalRecords

\* What a writer does when its Put returns: in the loop, the error is logged,
\* the buffer is cut to length 0 and the counter advanced; after the loop
\* (the drain), the error is logged and the goroutine ends, its buffer with it.
AfterPut(ws, err) ==
    IF ws.pc = "put"
    THEN /\ writers' = Step(writers, ws, [pc |-> "recv", records |-> << >>])
         /\ totalRecords' = totalRecords + 1
    ELSE /\ writers' = Step(writers, ws, [pc |-> "done", records |-> << >>])
         /\ UNCHANGED totalRecords

\* backend.Put(records) of a writer returns.
PutReturn(ws) ==
    /\ ws.pc \in {"put", "drain"}
    /\ \E fault \in BOOLEAN :
        LET records == ws.records
            put == BackendPut(backendType, db, Pairs(records), fault)
        IN  /\ db' = put.db
            /\ written' = IF put.err THEN written ELSE WriteAll(written, Pairs(records))
            /\ putLog' = Append(putLog, [records |-> records, err |-> put.err,
                                         drain |-> ws.pc = "drain"])
            /\ AfterPut(ws, put.err)
    /\ UNCHANGED << tvars, backendType, lookup, qvars, inputFilename, batchSize, pc, input, streamErr,
                    parserChClosed, writerChClosed, pRecv, pSend, pDone, parseLog, loadErr,
                    exitStatus, closeCalls >>

\* A Wait that does not wait.
WaitSkipped(done, count) == TRUE

\* A wait group that was added to once more than Done is called.
WaitOneMore(done, count) == done = count + 1

\* wg.Wait() returns once Done was called for every Add(1).
WaitReturns(done, count) == done = count

\* parsersWg.Wait() returns; close(writerCh).
CloseWriterCh ==
    /\ pc = "waitParsers"
    /\ WaitReturns(pDone, parsersCount)
    /\ writerChClosed' = TRUE
    /\ pc' = "waitWriters"
    /\ UNCHANGED << tvars, bvars, qvars, inputFilename, batchSize, input, streamErr, parserChClosed,
                    pRecv, pSend, pDone, writers, totalRecords, putLog, parseLog, loadErr,
                    exitStatus, closeCalls >>

\* The drain without its test.
DrainAlways(records) == TRUE

\* if len(records) > 0, after the loop
HasRest(records) == Len(records) > 0

\* A writer's `range writerCh` ends on the closed channel: what is left in
\* the buffer is handed to Put; with nothing left, writersWg.Done().
WriterDrain(ws) ==
    /\ writerChClosed
    /\ ws.pc = "recv"
    /\ writers' = Step(writers, ws, [ws EXCEPT !.pc =
                                        IF HasRest(ws.records) THEN "drain" ELSE "done"])
    /\ UNCHANGED << tvars, bvars, qvars, inputFilename, batchSize, pc, input, streamErr,
                    parserChClosed, writerChClosed, pRecv, pSend, pDone, totalRecords,
                    putLog, parseLog, loadErr, exitStatus, closeCalls >>

\* writersWg.Wait() returns; loadFile returns scanner.Err().
LoadReturn ==
    /\ pc = "waitWriters"
    /\ WaitReturns(WritersAt(writers, "done"), writersCount)
    /\ \E err \in BOOLEAN :
        /\ streamErr' = IF err THEN "read" ELSE "none"
        /\ loadErr' = IF err THEN "err" ELSE "nil"
    /\ pc' = "loaded"
    /\ UNCHANGED << tvars, bvars, qvars, inputFilename, batchSize, input, parserChClosed,
                    writerChClosed, pRecv, pSend, pDone, writers, totalRecords, putLog,
                    parseLog, exitStatus, closeCalls >>

\* if err := loadFile(...); err != nil { log.Fatal(err) }: os.Exit(1), which
\* runs no deferred call.
MainLoaded ==
    /\ pc = "loaded"
    /\ IF loadErr = "err"
       THEN pc' = "exit" /\ exitStatus' = "fatal"
       ELSE pc' = "query" /\ UNCHANGED exitStatus
    /\ UNCHANGED << tvars, bvars, qvars, inputFilename, batchSize, input, streamErr, parserChClosed,
                    writerChClosed, pRecv, pSend, pDone, writers, totalRecords, putLog,
                    parseLog, loadErr, closeCalls >>

\* ------------------------------------------------------------- main: query
\* Most terms in -q, and the largest -c.
MaxTerms == 3
MaxConcurrency == 3

\* strings.Split(query, ","), the byte 44 being the comma.
RECURSIVE SplitFrom(_, _)
SplitFrom(rest, part) ==
    IF rest = << >> THEN << part >>
    ELSE IF Head(rest) = 44 THEN << part >> \o SplitFrom(Tail(rest), << >>)
    ELSE SplitFrom(Tail(rest), Append(part, Head(rest)))

Split(str) == SplitFrom(str, << >>)

\* for _, q := range queryParts { if len(q) > 0 { append } }
NonEmptyTerm(q) == Len(q) > 0
Terms(str) == SelectSeq(Split(str), NonEmptyTerm)

\* concurrency := queryConcurrency; if l < concurrency { concurrency = l }
Concurrency(c, l) == IF l < c THEN l ELSE c

\* unicode.IsSpace
IsSpace(r) ==
    r \in {9, 10, 11, 12, 13, 32, 133, 160, 5760, 8232, 8233, 8239, 8287, 12288}
        \cup (8192..8202)

\* utf8.DecodeLastRuneInString(str[:n])
DecodeLastRune(str, n) ==
    IF str[n] < 128 THEN [r |-> str[n], w |-> 1]
    ELSE LET lim == IF n - 4 < 0 THEN 1 ELSE n - 3
             starts == {j \in lim..(n - 1) : ~IsCont(str[j])}
             start == IF starts = {} THEN (IF lim > 1 THEN lim - 1 ELSE 1)
                      ELSE CHOOSE j \in starts : \A k \in starts : k <= j
             d == DecodeRuneAt(SubSeq(str, 1, n), start)
         IN  IF start + d.w - 1 # n THEN [r |-> RuneError, w |-> 1] ELSE d

RECURSIVE TrimLeft(_, _)
TrimLeft(str, i) ==
    IF i > Len(str) THEN << >>
    ELSE LET d == DecodeRuneAt(str, i)
         IN  IF IsSpace(d.r) THEN TrimLeft(str, i + d.w) ELSE SubSeq(str, i, Len(str))

RECURSIVE TrimRight(_, _)
TrimRight(str, n) ==
    IF n = 0 THEN << >>
    ELSE LET d == DecodeLastRune(str, n)
         IN  IF IsSpace(d.r) THEN TrimRight(str, n - d.w) ELSE SubSeq(str, 1, n)

\* strings.TrimSpace
TrimSpace(str) == LET l == TrimLeft(str, 1) IN TrimRight(l, Len(l))

\* backend.Search(reverse(q)) as a queryResult, and whether it panicked.
Search(q, fault) ==
    LET got == BackendSearch(backendType, db, reverse(q), fault)
    IN  [res |-> [query |-> q, records |-> got.records, err |-> got.err], panic |-> got.panic]

\* What is printed for record r of the result of term q: the key reversed
\* back and the value, trimmed in the plain format.  (The plain format does
\* not print q; it is kept to tell the result blocks apart.)
Printed(q, r) ==
    [query |-> q, key |-> reverse(r.Key),
     value |-> IF jsonFmt THEN r.Value ELSE TrimSpace(r.Value)]

RECURSIVE PrintAll(_, _)
PrintAll(q, records) ==
    IF records = << >> THEN << >>
    ELSE << Printed(q, Head(records)) >> \o PrintAll(q, Tail(records))

\* The result put in front instead of at the end.
PrependResult(rs, res) == << res >> \o rs

\* results = append(results, queryResult{...})
AppendResult(rs, res) == Append(rs, res)

IdleWorker == [pc |-> "recv", q |-> << >>, res |-> NoResult]
WorkerStates == BagToSet(workers)

\* The query string is split; with no term main returns, with concurrency 1
\* it searches in a loop, otherwise it starts the workers and the collector.
SplitQuery ==
    /\ pc = "query"
    /\ exitStatus = "running"
    /\ LET terms == Terms(query)
           c == Concurrency(queryConcurrency, Len(terms))
       IN  /\ queryTerms' = terms
           /\ IF Len(terms) = 0 THEN
                  /\ pc' = "return"
                  /\ UNCHANGED << workers, collector >>
              ELSE IF c = 1 THEN
                  /\ pc' = "seq"
                  /\ UNCHANGED << workers, collector >>
              ELSE
                  /\ pc' = "feed"
                  /\ workers' = IF c > 0 THEN [w \in {IdleWorker} |-> c] ELSE EmptyBag
                  /\ collector' = [pc |-> "recv", res |-> NoResult]
    /\ UNCHANGED << tvars, bvars, inputFilename, batchSize, input, streamErr, parserChClosed,
                    writerChClosed, pRecv, pSend, pDone, writers, totalRecords, putLog,
                    parseLog, loadErr, exitStatus, closeCalls, query, queryConcurrency,
                    jsonFmt, qi, queryChClosed, outChClosed, results, ranged, oi, output,
                    failLog >>

\* concurrency == 1: main calls backend.Search(reverse(q)) for the next term.
SeqSearchCall ==
    /\ pc = "seq"
    /\ exitStatus = "running"
    /\ pc' = "seqSearch"
    /\ UNCHANGED << tvars, bvars, lvarsButPc, qvars >>

\* concurrency == 1: that Search returns and its result is appended.  A
\* panic in it unwinds main, which runs the deferred backend.Close().
SeqSearchReturn ==
    /\ pc = "seqSearch"
    /\ exitStatus = "running"
    /\ \E fault \in BOOLEAN :
        LET got == Search(queryTerms[qi], fault)
        IN  IF got.panic THEN
                /\ pc' = "exit"
                /\ exitStatus' = "panic"
                /\ closeCalls' = closeCalls + 1
                /\ UNCHANGED << results, qi >>
            ELSE
                /\ results' = AppendResult(results, got.res)
                /\ qi' = qi + 1
                /\ pc' = IF qi = Len(queryTerms) THEN "range" ELSE "seq"
                /\ UNCHANGED << exitStatus, closeCalls >>
    /\ UNCHANGED << tvars, bvars, inputFilename, batchSize, input, streamErr, parserChClosed,
                    writerChClosed, pRecv, pSend, pDone, writers, totalRecords, putLog,
                    parseLog, loadErr, query, queryConcurrency, jsonFmt, queryTerms,
                    queryChClosed, outChClosed, workers, collector, ranged, oi, output,
                    failLog >>

\* queryCh <- q, received by a worker in `range queryCh`, which calls
\* backend.Search(reverse(q)).
Dispatch(ws) ==
    /\ pc = "feed"
    /\ exitStatus = "running"
    /\ qi <= Len(queryTerms)
    /\ ws.pc = "recv"
    /\ workers' = Step(workers, ws, [pc |-> "search", q |-> queryTerms[qi], res |-> NoResult])
    /\ qi' = qi + 1
    /\ UNCHANGED << tvars, bvars, lvars, query, queryConcurrency, jsonFmt, queryTerms,
                    queryChClosed, outChClosed, collector, results, ranged, oi, output,
                    failLog >>

\* All terms are sent: close(queryCh), then wg.Wait().
CloseQueryCh ==
    /\ pc = "feed"
    /\ exitStatus = "running"
    /\ qi > Len(queryTerms)
    /\ queryChClosed' = TRUE
    /\ pc' = "wait"
    /\ UNCHANGED << tvars, bvars, lvarsButPc, query, queryConcurrency, jsonFmt, queryTerms, qi,
                    outChClosed, workers, collector, results, ranged, oi, output, failLog >>

\* A worker's Search returns.  A panic in it ends the process: no deferred
\* call of main runs.
WorkerSearchReturn(ws) ==
    /\ exitStatus = "running"
    /\ ws.pc = "search"
    /\ \E fault \in BOOLEAN :
        LET got == Search(ws.q, fault)
        IN  IF got.panic THEN
                /\ exitStatus' = "panic"
                /\ UNCHANGED workers
            ELSE
                /\ workers' = Step(workers, ws, [pc |-> "send", q |-> ws.q, res |-> got.res])
                /\ UNCHANGED exitStatus
    /\ UNCHANGED << tvars, bvars, inputFilename, batchSize, pc, input, streamErr,
                    parserChClosed, writerChClosed, pRecv, pSend, pDone, writers,
                    totalRecords, putLog, parseLog, loadErr, closeCalls, query,
                    queryConcurrency, jsonFmt, queryTerms, qi, queryChClosed, outChClosed,
                    collector, results, ranged, oi, output, failLog >>

\* outCh <- queryResult{...}, received by the collector in `range outCh`.
Collect(ws) ==
    /\ exitStatus = "running"
    /\ ws.pc = "send"
    /\ collector.pc = "recv"
    /\ collector' = [pc |-> "append", res |-> ws.res]
    /\ workers' = Step(workers, ws, IdleWorker)
    /\ UNCHANGED << tvars, bvars, lvars, query, queryConcurrency, jsonFmt, queryTerms, qi,
                    queryChClosed, outChClosed, results, ranged, oi, output, failLog >>

\* results = append(results, res), in the collector.
CollectorAppend ==
    /\ exitStatus = "running"
    /\ collector.pc = "append"
    /\ results' = AppendResult(results, collector.res)
    /\ collector' = [pc |-> "recv", res |-> NoResult]
    /\ UNCHANGED << tvars, bvars, lvars, query, queryConcurrency, jsonFmt, queryTerms, qi,
                    queryChClosed, outChClosed, workers, ranged, oi, output, failLog >>

\* A worker's `range queryCh` ends on the closed channel: wg.Done().
WorkerExit(ws) ==
    /\ exitStatus = "running"
    /\ queryChClosed
    /\ ws.pc = "recv"
    /\ workers' = Step(workers, ws, [pc |-> "done", q |-> << >>, res |-> NoResult])
    /\ UNCHANGED << tvars, bvars, lvars, query, queryConcurrency, jsonFmt, queryTerms, qi,
                    queryChClosed, outChClosed, collector, results, ranged, oi, output,
                    failLog >>

\* wg.Wait() returns; close(outCh).
CloseOutCh ==
    /\ pc = "wait"
    /\ exitStatus = "running"
    /\ \A ws \in WorkerStates : ws.pc = "done"
    /\ outChClosed' = TRUE
    /\ pc' = "range"
    /\ UNCHANGED << tvars, bvars, lvarsButPc, query, queryConcurrency, jsonFmt, queryTerms, qi,
                    queryChClosed, workers, collector, results, ranged, oi, output, failLog >>

\* The collector's `range outCh` ends on the closed channel.
CollectorExit ==
    /\ exitStatus = "running"
    /\ outChClosed
    /\ collector.pc = "recv"
    /\ collector' = [pc |-> "done", res |-> NoResult]
    /\ UNCHANGED << tvars, bvars, lvars, query, queryConcurrency, jsonFmt, queryTerms, qi,
                    queryChClosed, outChClosed, workers, results, ranged, oi, output,
                    failLog >>

\* `for _, res := range results`: main reads the slice, once.  Nothing
\* orders this read after the collector's last append.
RangeResults ==
    /\ pc = "range"
    /\ exitStatus = "running"
    /\ ranged' = results
    /\ pc' = "output"
    /\ UNCHANGED << tvars, bvars, lvarsButPc, query, queryConcurrency, jsonFmt, queryTerms, qi,
                    queryChClosed, outChClosed, workers, collector, results, oi, output,
                    failLog >>

\* One iteration of the output loop: a failed result is logged and
\* skipped, the records of another are printed.
PrintResult ==
    /\ pc = "output"
    /\ exitStatus = "running"
    /\ oi <= Len(ranged)
    /\ LET res == ranged[oi]
       IN  IF res.err
           THEN /\ failLog' = Append(failLog, res.query)
                /\ UNCHANGED output
           ELSE /\ output' = output \o PrintAll(res.query, res.records)
                /\ UNCHANGED failLog
    /\ oi' = oi + 1
    /\ UNCHANGED << tvars, bvars, lvars, query, queryConcurrency, jsonFmt, queryTerms, qi,
                    queryChClosed, outChClosed, workers, collector, results, ranged >>

\* The output loop is over.
OutputDone ==
    /\ pc = "output"
    /\ exitStatus = "running"
    /\ oi > Len(ranged)
    /\ pc' = "return"
    /\ UNCHANGED << tvars, bvars, lvarsButPc, qvars >>

\* main returns: the deferred backend.Close() runs and the process exits 0.
MainReturn ==
    /\ pc = "return"
    /\ exitStatus = "running"
    /\ closeCalls' = closeCalls + 1
    /\ exitStatus' = "ok"
    /\ pc' = "exit"
    /\ UNCHANGED << tvars, bvars, inputFilename, batchSize, input, streamErr, parserChClosed,
                    writerChClosed, pRecv, pSend, pDone, writers, totalRecords, putLog,
                    parseLog, loadErr, qvars >>

\* ----------------------------------------------------------- specifications
LoadNext ==
    \/ MainStart
    \/ LoadScan
    \/ HandOff
    \/ EndOfInput
    \/ ParserExit
    \/ \E ws \in WriterStates : WriterRecv(ws)
    \/ \E ws \in WriterStates : PutReturn(ws)
    \/ CloseWriterCh
    \/ \E ws \in WriterStates : WriterDrain(ws)
    \/ LoadReturn
    \/ MainLoaded
    \/ SplitQuery
    \/ MainReturn

SpecLoad == LoadInit /\ [][LoadNext]_vars

\* Loading under a fair scheduler and a backend whose Put returns: a step
\* that can be taken is taken in the end.
SpecLoadFair == LoadInit /\ [][LoadNext]_vars /\ WF_vars(LoadNext)

\* Most lines of a stream that is read while the backend stalls.
MaxStallLines == 18

\* The one line of such a stream, repeated: a valid record.
StallLines == {[name |-> << 97, 98 >>, value |-> << 49 >>, perr |-> "none"]}

\* A load with batch size 1 into a backend whose Put calls take longer than
\* the run is looked at: none of them returns.
StallInit ==
    /\ inputFilename = "in.gz"
    /\ batchSize = 1
    /\ backendType = "badgerdb"
    /\ db = EmptyDB
    /\ written = << >>
    /\ pc = "start"
    /\ input = << >>
    /\ streamErr = "none" /\ parserChClosed = FALSE /\ writerChClosed = FALSE
    /\ pRecv = 0 /\ pSend = {} /\ pDone = 0 /\ writers = NotStarted
    /\ totalRecords = 0 /\ putLog = << >> /\ parseLog = {} /\ loadErr = "none"
    /\ exitStatus = "running" /\ closeCalls = 0
    /\ NoQuery
    /\ TransformIdle
    /\ BackendIdle

StallScan == ScanUpTo(StallLines, MaxStallLines)

StallNext ==
    \/ MainStart
    \/ StallScan
    \/ HandOff
    \/ EndOfInput
    \/ ParserExit
    \/ \E ws \in WriterStates : WriterRecv(ws)
    \/ MainLoaded

SpecStall == StallInit /\ [][StallNext]_vars

\* The -q strings: up to MaxTerms parts joined by commas, a part being one
\* of three terms or empty.
QueryParts == {<< 97 >>, << 98 >>, << 97, 98 >>, << >>}

RECURSIVE Join(_)
Join(parts) ==
    IF Len(parts) = 1 THEN parts[1]
    ELSE parts[1] \o << 44 >> \o Join(Tail(parts))

QueryStrings == {Join(parts) : parts \in BatchesUpTo(QueryParts, MaxTerms) \ {<< >>}}

\* A database an earlier run has loaded the keys "ab" and "bb" into.
Preloaded ==
    [store |-> WriteAll(<< >>, << [Key |-> reverse(<< 97, 98 >>), Value |-> << 49 >>],
                                  [Key |-> reverse(<< 98, 98 >>), Value |-> << 50 >>] >>),
     bucket |-> TRUE]

\* The databases a run that only queries opens: loaded ones, and a bbolt
\* file no run has loaded anything into.
QueryDatabases ==
    {[type |-> "leveldb", db |-> Preloaded],
     [type |-> "badgerdb", db |-> Preloaded],
     [type |-> "bbolt", db |-> EmptyDB]}

\* The flags and the database of a run that only queries.
QueryInit ==
    /\ inputFilename = ""
    /\ batchSize = 1
    /\ \E d \in QueryDatabases :
        /\ backendType = d.type
        /\ db = d.db
        /\ written = d.db.store
    /\ pc = "start"
    /\ input = << >>
    /\ streamErr = "none" /\ parserChClosed = FALSE /\ writerChClosed = FALSE
    /\ pRecv = 0 /\ pSend = {} /\ pDone = 0 /\ writers = NotStarted
    /\ totalRecords = 0 /\ putLog = << >> /\ parseLog = {} /\ loadErr = "none"
    /\ exitStatus = "running" /\ closeCalls = 0
    /\ query \in QueryStrings
    /\ queryConcurrency \in (-1)..MaxConcurrency
    /\ jsonFmt = FALSE
    /\ QueryIdle
    /\ TransformIdle
    /\ BackendIdle

QueryNext ==
    \/ MainStart
    \/ SplitQuery
    \/ SeqSearchCall
    \/ SeqSearchReturn
    \/ \E ws \in WorkerStates : Dispatch(ws)
    \/ CloseQueryCh
    \/ \E ws \in WorkerStates : WorkerSearchReturn(ws)
    \/ \E ws \in WorkerStates : Collect(ws)
    \/ CollectorAppend
    \/ \E ws \in WorkerStates : WorkerExit(ws)
    \/ CloseOutCh
    \/ CollectorExit
    \/ RangeResults
    \/ PrintResult
    \/ OutputDone
    \/ MainReturn

SpecQuery == QueryInit /\ [][QueryNext]_vars

\* Querying under a fair scheduler and a backend whose Search returns.
SpecQueryFair == QueryInit /\ [][QueryNext]_vars /\ WF_vars(QueryNext)

\* The lines of a file that is loaded and then queried: three records with
\* different names, the last name a byte sequence that is no UTF-8.
MainLines ==
    {[name |-> << 97, 98 >>, value |-> << 49 >>, perr |-> "none"],
     [name |-> << 98 >>, value |-> << 32, 50 >>, perr |-> "none"],
     [name |-> << 195, 97 >>, value |-> << 51 >>, perr |-> "none"]}

\* The -q strings of such a run: "b", "a", "c" and "ab,b".
MainQueries == {<< 98 >>, << 97 >>, << 99 >>, << 97, 98, 44, 98 >>}

\* The flags and the newly opened database of a run that loads and queries.
MainInit ==
    /\ inputFilename = "in.gz"
    /\ batchSize = MaxBatch
    /\ backendType = "leveldb"
    /\ db = EmptyDB
    /\ written = << >>
    /\ pc = "start"
    /\ input = << >>
    /\ streamErr = "none" /\ parserChClosed = FALSE /\ writerChClosed = FALSE
    /\ pRecv = 0 /\ pSend = {} /\ pDone = 0 /\ writers = NotStarted
    /\ totalRecords = 0 /\ putLog = << >> /\ parseLog = {} /\ loadErr = "none"
    /\ exitStatus = "running" /\ closeCalls = 0
    /\ query \in MainQueries
    /\ queryConcurrency \in 1..2
    /\ jsonFmt \in BOOLEAN
    /\ QueryIdle
    /\ TransformIdle
    /\ BackendIdle

MainScan == ScanLine(MainLines)

MainNext ==
    \/ MainStart
    \/ MainScan
    \/ HandOff
    \/ EndOfInput
    \/ ParserExit
    \/ \E ws \in WriterStates : WriterRecv(ws)
    \/ \E ws \in WriterStates : PutReturn(ws)
    \/ CloseWriterCh
    \/ \E ws \in WriterStates : WriterDrain(ws)
    \/ LoadReturn
    \/ MainLoaded
    \/ SplitQuery
    \/ SeqSearchCall
    \/ SeqSearchReturn
    \/ \E ws \in WorkerStates : Dispatch(ws)
    \/ CloseQueryCh
    \/ \E ws \in WorkerStates : WorkerSearchReturn(ws)
    \/ \E ws \in WorkerStates : Collect(ws)
    \/ CollectorAppend
    \/ \E ws \in WorkerStates : WorkerExit(ws)
    \/ CloseOutCh
    \/ CollectorExit
    \/ RangeResults
    \/ PrintResult
    \/ OutputDone
    \/ MainReturn

SpecMain == MainInit /\ [][MainNext]_vars

\* ---------------------------------------------------------- loadFile: claims
\* loadFile has returned.
LoadReturned == loadErr # "none"

\* The lines a parser has received.
Handed == 1..(IF pc = "send" THEN Len(input) - 1 ELSE Len(input))

\* The records of all Put calls so far, in call order.
RECURSIVE Flatten(_)
Flatten(log) ==
    IF log = << >> THEN << >> ELSE Head(log).records \o Flatten(Tail(log))

PutRecords == Flatten(putLog)
PutRecordSet == {PutRecords[i] : i \in 1..Len(PutRecords)}
Occurrences(r, seq) == Cardinality({i \in 1..Len(seq) : seq[i] = r})

\* The records in the writers' buffers.
Buffered == UNION {{ws.records[i] : i \in 1..Len(ws.records)} : ws \in WriterStates}

\* The lines that carry a non-empty name and a non-empty value the callback
\* was given without error, and the Record each stands for.
ValidLines ==
    {n \in Handed : input[n].name # << >> /\ input[n].value # << >> /\ input[n].perr = "none"}
RecordOf(n) == [line |-> n, Key |-> reverse(input[n].name), Value |-> input[n].value]
Emitted == {RecordOf(n) : n \in ValidLines}

Ceil(n, b) == (n + b - 1) \div b

\* C1: every Record a writer receives is contained in exactly one Put call:
\* no record is ever put twice, only emitted records are put, and when
\* loadFile returns every emitted record has been put, whether or not the
\* Put calls returned an error.
C1_ExactlyOnePut ==
    /\ \A r \in PutRecordSet : Occurrences(r, PutRecords) = 1 /\ r \in Emitted
    /\ LoadReturned => \A r \in Emitted : Occurrences(r, PutRecords) = 1

\* loadFile has returned after three records went through Put calls, one of
\* which failed.
C1_Witness ==
    /\ LoadReturned
    /\ Len(PutRecords) = 3
    /\ Len(putLog) >= 2
    /\ \E i \in 1..Len(putLog) : putLog[i].err

\* C3 (as claimed): loading N valid records with batch size B produces
\* exactly ceil(N/B) Put calls whose combined record count is N.
C3_CeilPutCalls ==
    LoadReturned =>
        /\ Len(putLog) = Ceil(Cardinality(Emitted), batchSize)
        /\ Len(PutRecords) = Cardinality(Emitted)

\* C3 (amended): loading N valid records with batch size B produces at least
\* ceil(N/B) and at most ceil(N/B) + writersCount - 1 Put calls, exactly
\* ceil(N/B) when at most one writer is left with a partial buffer to drain;
\* their combined record count is N.
C3_PutCallsBounded ==
    LoadReturned =>
        LET N == Cardinality(Emitted)
            drains == {i \in 1..Len(putLog) : putLog[i].drain}
        IN  /\ Len(PutRecords) = N
            /\ Len(putLog) >= Ceil(N, batchSize)
            /\ Len(putLog) <= Ceil(N, batchSize) + writersCount - 1
            /\ Cardinality(drains) <= 1 => Len(putLog) = Ceil(N, batchSize)

\* Three records with batch size 2 have gone to three writers: three Put
\* calls, where ceil(3/2) is 2.
C3_Witness ==
    /\ LoadReturned
    /\ batchSize = 2
    /\ Cardinality(Emitted) = 3
    /\ Len(putLog) = 3

\* C6: a Put call that returns an error loses its batch and nothing else:
\* the batch is in no later Put call, no buffer holds a record that a
\* returned Put call was given, every emitted record is still put by the time
\* loadFile returns, and loadFile returns an error only for the input stream.
C6_PutFailurePolicy ==
    /\ \A i, j \in 1..Len(putLog) :
         (i < j /\ putLog[i].err) =>
             \A x \in 1..Len(putLog[i].records), y \in 1..Len(putLog[j].records) :
                 putLog[i].records[x] # putLog[j].records[y]
    /\ Buffered \cap PutRecordSet = {}
    /\ LoadReturned =>
         /\ Emitted \subseteq PutRecordSet
         /\ loadErr = "err" <=> streamErr # "none"

\* loadFile has returned nil although a Put call in a writer's loop failed,
\* and a later Put call went through.
C6_Witness ==
    /\ loadErr = "nil"
    /\ \E i, j \in 1..Len(putLog) :
         i < j /\ putLog[i].err /\ ~putLog[i].drain /\ ~putLog[j].err

\* The records held anywhere in the pipeline.
InPipeline == pSend \cup Buffered \cup PutRecordSet

\* C8: every Record on writerCh, in a writer's buffer or given to Put has a
\* non-empty Key and a non-empty Value and comes from a line with a
\* non-empty name and a non-empty value; so no stored pair has an empty key
\* or an empty value.
C8_RecordsNonEmpty ==
    /\ \A r \in InPipeline :
         /\ Len(r.Key) > 0 /\ Len(r.Value) > 0
         /\ input[r.line].name # << >> /\ input[r.line].value # << >>
    /\ \A k \in DOMAIN db.store : Len(k) > 0 /\ Len(db.store[k]) > 0

\* loadFile has returned after a line with an empty value, a line without a
\* name and a valid line went through; the valid one is stored.
C8_Witness ==
    /\ LoadReturned
    /\ \E n \in 1..Len(input) : input[n].name # << >> /\ input[n].value = << >>
    /\ \E n \in 1..Len(input) : input[n].name = << >>
    /\ DOMAIN db.store # {}

\* ------------------------------------------------------------ query: claims
\* min(-c, number of terms), the dispatcher's effective concurrency.
EffectiveConcurrency ==
    IF Len(queryTerms) < queryConcurrency THEN Len(queryTerms) ELSE queryConcurrency

\* The number of times x occurs in seq.
CountOf(x, seq) == Cardinality({i \in 1..Len(seq) : seq[i] = x})

RECURSIVE QueriesOf(_)
QueriesOf(rs) == IF rs = << >> THEN << >> ELSE << Head(rs).query >> \o QueriesOf(Tail(rs))

\* C2: with effective concurrency >= 2, when main iterates over results for
\* output it holds exactly one queryResult per input term, and nothing is
\* appended while main reads.
C2_OneResultPerTerm ==
    (pc = "output" /\ EffectiveConcurrency >= 2) =>
        /\ Len(ranged) = Len(queryTerms)
        /\ \A i \in 1..Len(queryTerms) :
             CountOf(queryTerms[i], QueriesOf(ranged)) = CountOf(queryTerms[i], queryTerms)
        /\ collector.pc # "append"
        /\ results = ranged

\* The queryResults the Search calls have returned, once all workers are
\* done: those appended and the one the collector may still hold.
Returned ==
    results \o (IF collector.pc = "append" THEN << collector.res >> ELSE << >>)

\* What the output loop prints for a sequence of queryResults.
RECURSIVE Blocks(_)
Blocks(rs) ==
    IF rs = << >> THEN << >>
    ELSE (IF Head(rs).err THEN << >> ELSE PrintAll(Head(rs).query, Head(rs).records))
             \o Blocks(Tail(rs))

RECURSIVE Failed(_)
Failed(rs) ==
    IF rs = << >> THEN << >>
    ELSE (IF Head(rs).err THEN << Head(rs).query >> ELSE << >>) \o Failed(Tail(rs))

SameBag(a, b) ==
    /\ Len(a) = Len(b)
    /\ \A i \in 1..Len(a) : CountOf(a[i], a) = CountOf(a[i], b)

\* C5: when all Search calls have returned, some with an error, and the
\* process has ended: nothing is printed for a failed Search and one failure
\* is logged for it, the records of every successful Search are printed in
\* full, and the exit status is zero.
C5_FailureIsolation ==
    (pc = "exit" /\ exitStatus # "panic" /\ queryTerms # << >>) =>
        /\ exitStatus = "ok"
        /\ SameBag(failLog, Failed(Returned))
        /\ SameBag(output, Blocks(Returned))

\* C5 for the runs in which every result was appended before main read
\* results (sequential runs among them).
C5_FailureIsolationWhenCollected ==
    (pc = "exit" /\ exitStatus # "panic" /\ queryTerms # << >> /\ collector.pc # "append"
       /\ Len(ranged) = Len(results)) =>
        /\ exitStatus = "ok"
        /\ SameBag(failLog, Failed(Returned))
        /\ SameBag(output, Blocks(Returned))

\* The run takes the `concurrency == 1` branch.
Sequential ==
    /\ queryTerms # << >>
    /\ (queryConcurrency = 1 \/ (Len(queryTerms) = 1 /\ queryConcurrency >= 1))

\* C7: with effective concurrency 1 the terms are searched one after the
\* other in input order (while the Search of term i runs, exactly the
\* results of terms 1..i-1 are there, in that order, and no other goroutine
\* searches), and the result blocks are printed in input term order.
C7_SequentialOrder ==
    Sequential =>
        /\ workers = EmptyBag
        /\ QueriesOf(results) = SubSeq(queryTerms, 1, qi - 1)
        /\ pc \in {"seq", "seqSearch"} => qi <= Len(queryTerms)
        /\ pc \in {"output", "return"} =>
             /\ QueriesOf(ranged) = queryTerms
             /\ output = Blocks(SubSeq(ranged, 1, oi - 1))
             /\ failLog = Failed(SubSeq(ranged, 1, oi - 1))

\* A sequential run of three different terms has printed two blocks and
\* logged a failure between them.
C7_Witness ==
    /\ Sequential
    /\ pc = "return"
    /\ Len(queryTerms) = 3
    /\ queryTerms[1] # queryTerms[2] /\ queryTerms[2] # queryTerms[3]
    /\ queryTerms[1] # queryTerms[3]
    /\ Len(failLog) = 1
    /\ Len(output) >= 2

\* ------------------------------------------------------- end to end: claims
\* The records of the file, with the keys as the file has them.
LoadedRecords ==
    {[key |-> ExtractKey(input[n]), value |-> ExtractValue(input[n])] :
        n \in {m \in 1..Len(input) : Accepted(input[m])}}

\* The file was loaded in full: loadFile returned nil, every Put succeeded,
\* and no two lines have the same name.
LoadedInFull ==
    /\ loadErr = "nil"
    /\ \A i \in 1..Len(putLog) : ~putLog[i].err
    /\ \A i, j \in 1..Len(input) : input[i].name = input[j].name => i = j

\* Every term's Search succeeded and its result reached the output loop.
AllAnswered ==
    /\ Len(ranged) = Len(queryTerms)
    /\ \A i \in 1..Len(ranged) : ~ranged[i].err

\* The value as the chosen format displays it.
Displayed(value) == IF jsonFmt THEN value ELSE TrimSpace(value)

\* What a query of term t is to print: the loaded records whose key ends
\* with t, under their keys as loaded.
Expected(t) ==
    {[query |-> t, key |-> r.key, value |-> Displayed(r.value)] :
        r \in {l \in LoadedRecords : HasSuffix(l.key, t)}}

OutputOf(t) == {output[i] : i \in {j \in 1..Len(output) : output[j].query = t}}

SuffixLookup ==
    \A i \in 1..Len(queryTerms) :
        LET t == queryTerms[i]
        IN  /\ OutputOf(t) = Expected(t)
            /\ Cardinality({j \in 1..Len(output) : output[j].query = t})
                 = Cardinality(Expected(t)) * CountOf(t, queryTerms)

\* C4: after a file of valid records with distinct keys was loaded in full,
\* a query whose Searches all succeed prints, for every term t, exactly the
\* loaded records whose original key ends with t, each with its original
\* key and its loaded value, and nothing for a term no key ends with.
C4_SuffixLookup ==
    (pc = "return" /\ LoadedInFull /\ AllAnswered) => SuffixLookup

\* C4 for the files whose keys are all UTF-8.
C4_SuffixLookupUTF8 ==
    (pc = "return" /\ LoadedInFull /\ AllAnswered
       /\ \A n \in 1..Len(input) : ValidUTF8(input[n].name)) => SuffixLookup

\* A full load of the three records was queried for "ab,b" with two workers
\* and all three matches were printed.
C4_LookupReached ==
    /\ pc = "return" /\ LoadedInFull /\ AllAnswered
    /\ Len(input) = 3 /\ queryConcurrency = 2 /\ Len(queryTerms) = 2
    /\ Len(output) = 3 /\ SuffixLookup

\* -------------------------------------------------- loadFile: more claims
\* loadFile has returned after it had started its goroutines.
PipelineReturned == LoadReturned /\ streamErr # "open"

\* Both channels are closed, every goroutine of both pools has ended, and
\* none is left in a channel operation.
AllStopped ==
    /\ parserChClosed /\ writerChClosed
    /\ pDone = parsersCount /\ pRecv = 0 /\ pSend = {}
    /\ \A ws \in WriterStates : ws.pc = "done"
    /\ BagCardinality(writers) = writersCount

\* C11: under fair scheduling, with every Put returning, loadFile returns
\* for every finite input and every batch size, and when it has returned
\* both channels are closed, all parsers and writers have ended and no
\* goroutine is blocked on a channel.
C11_LoadTerminates == <>LoadReturned /\ [](PipelineReturned => AllStopped)

\* loadFile has returned from a stream of MaxLines lines with everything
\* stopped, one of the Put calls having failed.
C11_Witness ==
    /\ PipelineReturned /\ AllStopped
    /\ Len(input) = MaxLines
    /\ \E i \in 1..Len(putLog) : putLog[i].err

\* ----------------------------------------------------- query: more claims
\* main has come to the output loop, every term having been searched.
ReachedOutput ==
    /\ pc \in {"output", "return", "exit"}
    /\ exitStatus # "panic"
    /\ Len(Returned) = Len(queryTerms)

\* main is blocked in `queryCh <- q` with no goroutine left to receive.
FeedBlocked ==
    /\ pc = "feed" /\ qi <= Len(queryTerms)
    /\ \A ws \in WorkerStates : ws.pc # "recv"
    /\ \A ws \in WorkerStates : ws.pc # "search" /\ ws.pc # "send"

\* C12: under fair scheduling, with every Search returning, for every
\* non-empty term list and every value of -c (0 and negative ones too)
\* every term is searched and main reaches the output loop; main never
\* blocks for good on the send to queryCh.
C12_DispatchTerminates == <>(ReachedOutput \/ exitStatus = "panic")

\* C12 for the values of -c that are at least 1: main is never blocked
\* for good on the send.
C12_NeverBlockedPositive == queryConcurrency >= 1 => ~FeedBlocked

\* C12, its last part: main is never blocked for good on the send.
C12_NeverBlockedOnSend == ~FeedBlocked

\* The lines that were dropped: handed to a parser and not made a Record.
DroppedLines == {n \in Handed : ~Accepted(input[n])}

\* A dropped line is in no Put call, the valid lines after it are, and
\* loadFile returns an error for the stream only.
DropIsNonFatal ==
    /\ \A n \in DroppedLines : \A r \in InPipeline : r.line # n
    /\ LoadReturned =>
         /\ \A n \in DroppedLines, m \in ValidLines : m > n => RecordOf(m) \in PutRecordSet
         /\ loadErr = "err" <=> streamErr # "none"

\* C13: a line that fails to parse or lacks a non-empty key or value is
\* dropped after being logged, loadFile returns no error because of it, and
\* every valid line after it is still extracted and passed to a Put call.
C13_MalformedLineDropped ==
    /\ DropIsNonFatal
    /\ \A n \in DroppedLines : n \in parseLog

\* C13 without the log line: what holds of every dropped line.
C13_MalformedLineNonFatal == DropIsNonFatal

DrainPuts(log) == Cardinality({i \in 1..Len(log) : log[i].drain})

\* No Put call was given an empty batch; only after close(writerCh) does a
\* writer leave its loop; a writer flushing its rest has a rest; and there
\* are no more drain flushes than writers that have ended.
DrainState ==
    /\ \A i \in 1..Len(putLog) : Len(putLog[i].records) >= 1
    /\ ~writerChClosed => (WritersAt(writers, "drain") = 0 /\ WritersAt(writers, "done") = 0
                             /\ DrainPuts(putLog) = 0)
    /\ \A ws \in WriterStates : ws.pc = "drain" => Len(ws.records) >= 1
    /\ DrainPuts(putLog) <= WritersAt(writers, "done")

\* A step that ends a writer either returns from its one drain flush or
\* finds the buffer empty and calls no Put; a drain flush ends its writer;
\* a writer that has ended takes no further step.
DrainStep ==
    /\ WritersAt(writers', "done") >= WritersAt(writers, "done")
    /\ WritersAt(writers', "done") <= WritersAt(writers, "done") + 1
    /\ DrainPuts(putLog') = DrainPuts(putLog) + 1 <=>
         (/\ WritersAt(writers', "drain") = WritersAt(writers, "drain") - 1
          /\ WritersAt(writers', "done") = WritersAt(writers, "done") + 1)
    /\ (WritersAt(writers', "done") = WritersAt(writers, "done") + 1 /\ putLog' = putLog) =>
         (/\ [pc |-> "recv", records |-> << >>] \in WriterStates
          /\ WritersAt(writers', "recv") = WritersAt(writers, "recv") - 1)
    /\ DrainPuts(putLog') \in {DrainPuts(putLog), DrainPuts(putLog) + 1}

\* C14: after close(writerCh) each writer calls Put on the rest of its
\* buffer exactly once if there is a rest and not at all if there is none;
\* Put is never called with an empty batch, and no writer calls Put after
\* its drain flush.
C14_DrainOnce == []DrainState /\ [][DrainStep]_vars

\* loadFile has returned after a Put of a full buffer and a drain flush;
\* the writers that had nothing left ended without a Put.
C14_Witness ==
    /\ LoadReturned
    /\ DrainPuts(putLog) = 1
    /\ Len(putLog) = 2
    /\ WritersAt(writers, "done") = writersCount

\* Every buffer holds at most batchSize records, fewer while its writer
\* waits on writerCh and exactly batchSize while its writer is in the Put of
\* its loop; every Put was given 1..batchSize records, batchSize if it was
\* not a drain flush.
CapacityState ==
    /\ \A ws \in WriterStates :
         /\ Len(ws.records) <= batchSize
         /\ ws.pc = "recv" => Len(ws.records) < batchSize
         /\ ws.pc = "put" => Len(ws.records) = batchSize
    /\ \A i \in 1..Len(putLog) :
         /\ Len(putLog[i].records) \in 1..batchSize
         /\ ~putLog[i].drain => Len(putLog[i].records) = batchSize

\* A step in which a Record leaves writerCh touches no writer whose buffer
\* is full.
CapacityStep ==
    (pSend' # pSend /\ pSend' \subseteq pSend) =>
        \A ws \in WriterStates :
            Len(ws.records) = batchSize => CopiesIn(ws, writers') >= CopiesIn(ws, writers)

\* C15: for every batch size B >= 1 each writer's buffer holds at most B
\* records, every batch passed to Put has between 1 and B records, every
\* Put that is no drain flush has exactly B, and a writer whose buffer has
\* reached B receives no Record until its Put has returned and the buffer
\* is cut to length 0.
C15_BatchCapacity == []CapacityState /\ [][CapacityStep]_vars

\* With batch size 2 a writer is in Put with a full buffer while a parser
\* waits to send a third Record.
C15_Witness ==
    /\ batchSize = 2
    /\ \E ws \in WriterStates : ws.pc = "put" /\ Len(ws.records) = 2
    /\ pSend # {}
    /\ Len(input) = 3

\* Every Put call so far has returned nil.
AllPutsSucceeded == \A i \in 1..Len(putLog) : ~putLog[i].err

\* The contents a load of the valid lines in input order leaves: for every
\* key the value of the last line that has it.
InOrder ==
    LET last(k) == CHOOSE n \in ValidLines :
                       /\ RecordOf(n).Key = k
                       /\ \A m \in ValidLines : RecordOf(m).Key = k => m <= n
    IN  [k \in {RecordOf(n).Key : n \in ValidLines} |-> RecordOf(last(k)).Value]

\* C16: whatever the interleaving of parsers and writers, the contents of
\* the backend after loadFile has returned (all Put calls succeeding) are
\* the same for the same input: those the lines leave in input order, also
\* when a key occurs on several lines with different values.
C16_OrderIndependence ==
    (LoadReturned /\ AllPutsSucceeded) => db.store = InOrder

\* C16 for the inputs in which no key occurs with two different values.
C16_OrderIndependenceOneValue ==
    (LoadReturned /\ AllPutsSucceeded
       /\ \A n, m \in ValidLines :
            input[n].name = input[m].name => input[n].value = input[m].value)
        => db.store = InOrder

\* The input "ab": 1, "ab": 2 has been loaded.
TwoValuesLoaded ==
    /\ LoadReturned /\ AllPutsSucceeded
    /\ Len(input) = 2
    /\ input[1] = [name |-> << 97, 98 >>, value |-> << 49 >>, perr |-> "none"]
    /\ input[2] = [name |-> << 97, 98 >>, value |-> << 50 >>, perr |-> "none"]

\* The two outcomes of that load: the value of the second line is stored,
\* or that of the first.
C16_SecondStored == TwoValuesLoaded /\ db.store[reverse(<< 97, 98 >>)] = << 50 >>
C16_FirstStored == TwoValuesLoaded /\ db.store[reverse(<< 97, 98 >>)] = << 49 >>

\* The records of the Put calls that have been issued: those that have
\* returned and those a writer is in.
Issued ==
    PutRecordSet \cup UNION {{ws.records[i] : i \in 1..Len(ws.records)} :
                                ws \in {x \in WriterStates : x.pc \in {"put", "drain"}}}

\* The lines the scanner has returned that were not dropped and are in no
\* issued Put call: the one the reader holds, those parsers hold and those
\* in the buffers.
InFlight ==
    {n \in 1..Len(input) :
        IF n \in Handed THEN Accepted(input[n]) /\ RecordOf(n) \notin Issued ELSE TRUE}

\* All writers are inside Put.
AllInPut ==
    /\ BagCardinality(writers) = 4
    /\ \A ws \in WriterStates : ws.pc \in {"put", "drain"}

PressureState ==
    /\ Cardinality(InFlight) <= 1 + 12 + 4 * batchSize
    /\ Cardinality(pSend) <= 12
    /\ AllInPut => Cardinality(InFlight \cap Handed) <= 12

\* While all writers are inside Put no Record leaves writerCh.
PressureStep == AllInPut => pSend \subseteq pSend'

C17_ReaderStalls == Len(input) <= 17

\* The Records the writers have received from writerCh.
Received == Buffered \cup PutRecordSet

\* The counter is the number of Records received, less those whose writer
\* is still in the Put that comes before its atomic.AddInt64; once
\* loadFile has returned it is the number of Records emitted.
CounterState ==
    /\ totalRecords = Cardinality(Received) - WritersAt(writers, "put")
    /\ totalRecords >= 0
    /\ pc = "start" => totalRecords = 0
    /\ LoadReturned => totalRecords = Cardinality(Emitted)

\* The counter never decreases and moves by one.
CounterStep == totalRecords' \in {totalRecords, totalRecords + 1}

\* C18: totalRecords starts at 0, never decreases, is incremented by 1 for
\* each Record a writer receives, whether or not its Put succeeds, and
\* equals the number of Records emitted when loadFile returns.
C18_ProgressCounter == []CounterState /\ [][CounterStep]_vars

\* loadFile has returned with the counter at 3, two of the three records
\* having been in Put calls that failed.
C18_Witness ==
    /\ LoadReturned
    /\ totalRecords = 3
    /\ \E i, j \in 1..Len(putLog) : i # j /\ putLog[i].err /\ putLog[j].err

\* ------------------------------------------------------------ main: claims
\* No Put call is under way.
NoPutRunning == \A ws \in WriterStates : ws.pc \notin {"put", "drain"}

\* C19: the backend having been opened, backend.Close is called exactly
\* once, after the last Put and Search call, on every path by which the
\* process ends, the one where loadFile returns a fatal stream error
\* included.
C19_CloseOnce ==
    /\ closeCalls <= 1
    /\ closeCalls = 1 => (pc = "exit" /\ NoPutRunning)
    /\ pc = "exit" => closeCalls = 1

\* C19 for the runs that end by main returning.
C19_CloseOnceOnReturn ==
    /\ closeCalls <= 1
    /\ closeCalls = 1 => (pc = "exit" /\ NoPutRunning)
    /\ (pc = "exit" /\ exitStatus = "ok") => closeCalls = 1

\* A Search call has been issued.
SearchIssued == pc = "seqSearch" \/ qi > 1

\* Once a Search is issued loadFile has returned nil, every parser and
\* writer has ended, and the store holds what the successful Put calls
\* were given.
LoadedBefore ==
    SearchIssued =>
        /\ loadErr = "nil"
        /\ pSend = {} /\ pDone = parsersCount
        /\ \A ws \in WriterStates : ws.pc = "done"
        /\ Emitted \subseteq PutRecordSet
        /\ db.store = written

\* From the first Search on no Put call returns and the store is not
\* written to.
NoPutAfter == SearchIssued => (putLog' = putLog /\ db' = db)

\* C20: in a run that loads and queries, no Search is issued until every
\* Put of the load, the drain flushes included, has returned, so every
\* record put with success is seen by the queries of the run.
C20_LoadBeforeQuery == []LoadedBefore /\ [][NoPutAfter]_vars

\* A search worker is inside Search after a load of three lines whose Put
\* calls, a drain flush among them, have all returned.
C20_Witness ==
    /\ \E ws \in WorkerStates : ws.pc = "search"
    /\ Len(input) = 3
    /\ Len(putLog) >= 2
    /\ \E i \in 1..Len(putLog) : putLog[i].drain

====
